---------------------------- MODULE Spec2Model ----------------------------
(***************************************************************************)
(* SharePoint2s3: the recursive copy of a SharePoint folder tree into an   *)
(* S3 bucket (src/sharepoint2s3.py).                                       *)
(*                                                                         *)
(* Strings are sequences of one-character strings, so that lstrip, rstrip, *)
(* startswith, slicing and concatenation are modelled by what they do.     *)
(***************************************************************************)
EXTENDS Integers, Sequences, FiniteSets, TLC

VARIABLES
    args,       \* the command line: sharepoint_url, sharepoint_folder, s3_prefix
    src,        \* the source tree held by SharePoint: parent, name, fdir
    pc,         \* position of main
    s3_prefix,  \* self.s3_prefix, the stored (normalised) prefix
    stack,      \* the call stack of copy_folder, innermost frame last
    result,     \* what start_transfer returned: <<success_count, error_count>>
    exit_code,  \* the process exit code, NoExit while running
    bucket,     \* the destination bucket: key -> body
    log,        \* every call made on the two collaborators, in order
    call        \* path specification: the last call of a path function

vars == <<args, src, pc, s3_prefix, stack, result, exit_code, bucket, log, call>>

----------------------------------------------------------------------------
(* Bounds of the model.                                                    *)

\* folders below the start folder
MaxFolders == 2
\* files in the tree
MaxFiles == 2
\* longest path string drawn in the path specification
MaxLen == 5
\* most '/' characters added at the end of a drawn site path or prefix
MaxSlashes == 2

----------------------------------------------------------------------------
(* Python's str methods.                                                   *)

SLASH == "/"

\* str.lstrip('/')
RECURSIVE LStrip(_)
LStrip(s) == IF s # <<>> /\ Head(s) = SLASH THEN LStrip(Tail(s)) ELSE s

\* str.rstrip('/')
RECURSIVE RStrip(_)
RStrip(s) ==
    IF s # <<>> /\ s[Len(s)] = SLASH THEN RStrip(SubSeq(s, 1, Len(s) - 1)) ELSE s

\* str.startswith(p)
StartsWith(s, p) == Len(p) <= Len(s) /\ SubSeq(s, 1, Len(p)) = p

\* str.endswith(p)
EndsWith(s, p) == Len(p) <= Len(s) /\ SubSeq(s, Len(s) - Len(p) + 1, Len(s)) = p

\* s[n:]
DropFirst(s, n) == SubSeq(s, n + 1, Len(s))

\* urlparse(url).path: a URL is held as its origin and its path
UrlPath(url) == url.path

----------------------------------------------------------------------------
(* The path functions of SharePointToS3.                                   *)

\* __init__: self.s3_prefix = s3_prefix.rstrip('/') + '/' if s3_prefix else ""
NormalizePrefixNoStrip(p) == IF p # <<>> THEN p \o <<SLASH>> ELSE <<>>
NormalizePrefix(p) == IF p # <<>> THEN RStrip(p) \o <<SLASH>> ELSE <<>>

\* _get_relative_path, with site_url = urlparse(self.sharepoint_url).path
GetRelativePathBasename(site_url, sharepoint_path) ==
    LET cut == {k \in 1..Len(sharepoint_path) : sharepoint_path[k] = SLASH}
        last == IF cut = {} THEN 0 ELSE CHOOSE k \in cut : \A m \in cut : m <= k
    IN  DropFirst(sharepoint_path, last)
GetRelativePathKeepSlash(site_url, sharepoint_path) ==
    IF StartsWith(sharepoint_path, site_url)
    THEN DropFirst(sharepoint_path, Len(site_url))
    ELSE LStrip(sharepoint_path)
GetRelativePath(site_url, sharepoint_path) ==
    IF StartsWith(sharepoint_path, site_url)
    THEN LStrip(DropFirst(sharepoint_path, Len(site_url)))
    ELSE LStrip(sharepoint_path)

\* copy_folder: s3_key = f"{self.s3_prefix}{relative_path}"
S3KeyNoPrefix(prefix, relative_path) == relative_path
S3Key(prefix, relative_path) == prefix \o relative_path

\* start_transfer: the server relative URL of the start folder
ServerRelativeUrl(site_path, relative_folder_path) ==
    LET site_url == IF ~EndsWith(site_path, <<SLASH>>)
                    THEN site_path \o <<SLASH>> ELSE site_path
    IN  site_url \o LStrip(relative_folder_path)

----------------------------------------------------------------------------
(* The source tree SharePoint holds, and the command lines drawn.          *)

Forms == <<"F", "o", "r", "m", "s">>

\* the names a folder below the start folder may have
FolderNames == {<<"a">>, <<".">>, <<".", ".">>, Forms, <<"f", "o", "r", "m", "s">>}

Root == 0
SubFolders == 1..MaxFolders
FolderIds == {Root} \cup SubFolders
FileIds == 1..MaxFiles

\* The command line drawn, with the place the start folder really has on the
\* server: site is the site's server relative path, rel the start folder's path
\* below it. The start folder bears a name copy_folder skips in subfolders.
Configs ==
    { [url |-> [origin |-> "https://h", path |-> <<"/", "s">>],
       folder |-> <<"/">> \o Forms, prefix |-> <<"p", "/", "/">>,
       site |-> <<"/", "s">>, rel |-> Forms] }

\* a or one of the folders above a, parent giving each folder's parent
RECURSIVE SelfOrAbove(_, _, _)
SelfOrAbove(a, f, parent) ==
    a = f \/ (f # Root /\ SelfOrAbove(a, parent[f], parent))

\* Folders are numbered in the order a walk of the whole tree meets them, and
\* files by the folder they lie in (so each tree is drawn once): folder f + 1
\* lies in folder f or in a folder above f; two folders of one parent differ in
\* name; file i lies in folder fdir[i].
Trees ==
    { t \in [parent : [SubFolders -> FolderIds],
             name : [SubFolders -> FolderNames],
             fdir : [FileIds -> FolderIds]] :
        /\ \A f \in SubFolders : t.parent[f] < f
        /\ \A f \in SubFolders :
              f > 1 => SelfOrAbove(t.parent[f], f - 1, t.parent)
        /\ \A f, g \in SubFolders :
              (f # g /\ t.parent[f] = t.parent[g]) => t.name[f] # t.name[g]
        /\ \A i, k \in FileIds : i < k => t.fdir[i] <= t.fdir[k] }

\* the name of file i: "f", "ff", ...
FileName(i) == [k \in 1..i |-> "f"]

\* the bytes of file i
Content(i) == i

\* a folder's path below the site
RECURSIVE RelOf(_)
RelOf(n) ==
    IF n = Root THEN src.rel
    ELSE RelOf(src.parent[n]) \o <<SLASH>> \o src.name[n]

\* properties['ServerRelativeUrl'] of a folder and of a file
Url(n) == src.site \o <<SLASH>> \o RelOf(n)
FileRel(i) == RelOf(src.fdir[i]) \o <<SLASH>> \o FileName(i)
FileUrl(i) == src.site \o <<SLASH>> \o FileRel(i)

\* the elements of a set of numbers, in increasing order
RECURSIVE Sorted(_)
Sorted(S) ==
    IF S = {} THEN <<>>
    ELSE LET m == CHOOSE x \in S : \A y \in S : x <= y
         IN  <<m>> \o Sorted(S \ {m})

\* folder.files and folder.folders once loaded: the descriptors of the children
FilesOf(n) ==
    LET ids == Sorted({i \in FileIds : src.fdir[i] = n})
    IN  [k \in 1..Len(ids) |-> [ServerRelativeUrl |-> FileUrl(ids[k])]]
FoldersOf(n) ==
    LET ids == Sorted({f \in SubFolders : src.parent[f] = n})
    IN  [k \in 1..Len(ids) |->
            [Name |-> src.name[ids[k]], ServerRelativeUrl |-> Url(ids[k])]]

\* get_folder_by_server_relative_url, File.open_binary: what lies at a URL
FolderExists(url) == \E n \in FolderIds : Url(n) = url
FolderAt(url) == CHOOSE n \in FolderIds : Url(n) = url
FileAt(url) == CHOOSE i \in FileIds : FileUrl(i) = url

----------------------------------------------------------------------------
(* The walk: main, SharePointToS3.__init__, start_transfer, copy_folder.   *)

NoExit == "running"
NoResult == <<>>
NoCall == [op |-> "none"]

\* the subfolder names copy_folder does not enter
SkipNamesNoForms == {<<".">>, <<".", ".">>}
SkipNames == {<<".">>, <<".", ".">>, Forms}

\* one call on a collaborator, or one return of copy_folder (res: what it returns)
Event(op, path, key, body, ok) ==
    [op |-> op, path |-> path, key |-> key, body |-> body, ok |-> ok,
     res |-> NoResult]
Returned(folder_url, res) ==
    [Event("return", folder_url, <<>>, 0, TRUE) EXCEPT !.res = res]

\* a fresh call of copy_folder(folder_url): success_count = error_count = 0
FrameAtSecondFile(folder_url) ==
    [folder_url |-> folder_url, loaded |-> FALSE, files |-> <<>>, folders |-> <<>>,
     i |-> 2, j |-> 1, success_count |-> 0, error_count |-> 0]
Frame(folder_url) ==
    [folder_url |-> folder_url, loaded |-> FALSE, files |-> <<>>, folders |-> <<>>,
     i |-> 1, j |-> 1, success_count |-> 0, error_count |-> 0]

Top == stack[Len(stack)]
Callers == SubSeq(stack, 1, Len(stack) - 1)

\* s3_client.put_object(Bucket, Key, Body): the object at Key is replaced
PutObjectAlone(b, key, body) == [k \in {key} |-> body]
PutObject(b, key, body) ==
    [k \in DOMAIN b \cup {key} |-> IF k = key THEN body ELSE b[k]]

\* the except branch of copy_folder: return success_count, error_count + 1
FolderErrorResultUncounted(fr) == <<fr.success_count, fr.error_count>>
FolderErrorResult(fr) == <<fr.success_count, fr.error_count + 1>>

\* the caller's success_count += sub_success; error_count += sub_error
MergeDropErrors(fr, res) ==
    [fr EXCEPT !.success_count = @ + res[1], !.j = @ + 1]
Merge(fr, res) ==
    [fr EXCEPT !.success_count = @ + res[1], !.error_count = @ + res[2],
               !.j = @ + 1]

\* the file loop after one file: the counters, and on to the next file
AfterFileStopOnError(fr, out) ==
    IF out = "ok"
    THEN [fr EXCEPT !.success_count = @ + 1, !.i = @ + 1]
    ELSE [fr EXCEPT !.error_count = @ + 1, !.i = Len(fr.files) + 1]
AfterFile(fr, out) ==
    IF out = "ok"
    THEN [fr EXCEPT !.success_count = @ + 1, !.i = @ + 1]
    ELSE [fr EXCEPT !.error_count = @ + 1, !.i = @ + 1]

\* whether put_object is reached: File.open_binary raises before it
PutReachedAlways(out) == TRUE
PutReached(out) == out # "fetch"

\* main: sys.exit(1) if error_count > 0, else the process ends with code 0
ExitCodeAlwaysZero(error_count) == 0
ExitCode(error_count) == IF error_count > 0 THEN 1 ELSE 0

\* copy_folder returns res: to the copy_folder that called it, which merges it,
\* or to start_transfer, which returns it as it is
Return(res) ==
    IF Callers = <<>>
    THEN /\ stack' = <<>>
         /\ result' = res
         /\ pc' = "returned"
    ELSE /\ stack' = [Callers EXCEPT ![Len(Callers)] = Merge(@, res)]
         /\ UNCHANGED <<result, pc>>

\* main builds SharePointToS3: the SharePoint sign-in or head_bucket may raise,
\* and main's except branch then exits with 1
Construct ==
    /\ pc = "main"
    /\ \E auth_ok, bucket_ok \in BOOLEAN :
          /\ log' = IF auth_ok
                    THEN <<Event("auth", <<>>, <<>>, 0, TRUE),
                           Event("head_bucket", <<>>, <<>>, 0, bucket_ok)>>
                    ELSE <<Event("auth", <<>>, <<>>, 0, FALSE)>>
          /\ IF auth_ok /\ bucket_ok
             THEN /\ s3_prefix' = NormalizePrefix(args.s3_prefix)
                  /\ pc' = "start"
                  /\ UNCHANGED exit_code
             ELSE /\ exit_code' = 1
                  /\ pc' = "exit"
                  /\ UNCHANGED s3_prefix
    /\ UNCHANGED <<args, src, stack, result, bucket, call>>

\* start_transfer calls copy_folder on the joined path
StartTransfer ==
    /\ pc = "start"
    /\ stack' = <<Frame(ServerRelativeUrl(UrlPath(args.sharepoint_url),
                                          args.sharepoint_folder))>>
    /\ pc' = "walk"
    /\ UNCHANGED <<args, src, s3_prefix, result, exit_code, bucket, log, call>>

\* copy_folder loads the folder, its files and its folders in one query, which
\* may raise (and does when no folder lies at the URL)
ListFolder ==
    /\ pc = "walk" /\ stack # <<>> /\ ~Top.loaded
    /\ \E ok \in BOOLEAN :
          /\ ok => FolderExists(Top.folder_url)
          /\ IF ok
             THEN /\ stack' = [stack EXCEPT ![Len(stack)] =
                        [@ EXCEPT !.loaded = TRUE,
                                  !.files = FilesOf(FolderAt(Top.folder_url)),
                                  !.folders = FoldersOf(FolderAt(Top.folder_url))]]
                  /\ log' = Append(log, Event("list", Top.folder_url, <<>>, 0, TRUE))
                  /\ UNCHANGED <<result, pc>>
             ELSE /\ Return(FolderErrorResult(Top))
                  /\ log' = log \o <<Event("list", Top.folder_url, <<>>, 0, FALSE),
                                      Returned(Top.folder_url, FolderErrorResult(Top))>>
    /\ UNCHANGED <<args, src, s3_prefix, exit_code, bucket, call>>

\* one turn of the file loop: the key, the download, the upload, the count
CopyFile ==
    /\ pc = "walk" /\ stack # <<>> /\ Top.loaded /\ Top.i <= Len(Top.files)
    /\ \E out \in {"ok", "fetch", "put"} :
          LET file_obj == Top.files[Top.i]
              relative_path == GetRelativePath(UrlPath(args.sharepoint_url),
                                               file_obj.ServerRelativeUrl)
              s3_key == S3Key(s3_prefix, relative_path)
              file_content == Content(FileAt(file_obj.ServerRelativeUrl))
              fetched == Event("fetch", file_obj.ServerRelativeUrl, <<>>, 0,
                               out # "fetch")
              put == Event("put", file_obj.ServerRelativeUrl, s3_key,
                           file_content, out = "ok")
          IN  /\ log' = IF PutReached(out) THEN log \o <<fetched, put>>
                        ELSE Append(log, fetched)
              /\ bucket' = IF out = "ok"
                           THEN PutObject(bucket, s3_key, file_content)
                           ELSE bucket
              /\ stack' = [stack EXCEPT ![Len(stack)] = AfterFile(@, out)]
    /\ UNCHANGED <<args, src, pc, s3_prefix, result, exit_code, call>>

\* one turn of the folder loop on a special folder: nothing is done
SkipSubfolder ==
    /\ pc = "walk" /\ stack # <<>> /\ Top.loaded
    /\ Top.i > Len(Top.files) /\ Top.j <= Len(Top.folders)
    /\ Top.folders[Top.j].Name \in SkipNames
    /\ stack' = [stack EXCEPT ![Len(stack)] = [@ EXCEPT !.j = @ + 1]]
    /\ UNCHANGED <<args, src, pc, s3_prefix, result, exit_code, bucket, log, call>>

\* one turn of the folder loop on any other folder: copy_folder(subfolder_url)
EnterSubfolder ==
    /\ pc = "walk" /\ stack # <<>> /\ Top.loaded
    /\ Top.i > Len(Top.files) /\ Top.j <= Len(Top.folders)
    /\ Top.folders[Top.j].Name \notin SkipNames
    /\ stack' = Append(stack, Frame(Top.folders[Top.j].ServerRelativeUrl))
    /\ UNCHANGED <<args, src, pc, s3_prefix, result, exit_code, bucket, log, call>>

\* both loops are over: return success_count, error_count
ReturnFolder ==
    /\ pc = "walk" /\ stack # <<>> /\ Top.loaded
    /\ Top.i > Len(Top.files) /\ Top.j > Len(Top.folders)
    /\ Return(<<Top.success_count, Top.error_count>>)
    /\ log' = Append(log, Returned(Top.folder_url,
                                   <<Top.success_count, Top.error_count>>))
    /\ UNCHANGED <<args, src, s3_prefix, exit_code, bucket, call>>

\* main after start_transfer: the summary, then the exit code
Exit ==
    /\ pc = "returned"
    /\ exit_code' = ExitCode(result[2])
    /\ pc' = "exit"
    /\ UNCHANGED <<args, src, s3_prefix, stack, result, bucket, log, call>>

Init ==
    /\ \E c \in Configs, t \in Trees :
          /\ args = [sharepoint_url |-> c.url, sharepoint_folder |-> c.folder,
                     s3_prefix |-> c.prefix]
          /\ src = [site |-> c.site, rel |-> c.rel, parent |-> t.parent,
                    name |-> t.name, fdir |-> t.fdir]
    /\ pc = "main"
    /\ s3_prefix = <<>>
    /\ stack = <<>>
    /\ result = NoResult
    /\ exit_code = NoExit
    /\ bucket = <<>>
    /\ log = <<>>
    /\ call = NoCall

Next ==
    \/ Construct
    \/ StartTransfer
    \/ ListFolder
    \/ CopyFile
    \/ SkipSubfolder
    \/ EnterSubfolder
    \/ ReturnFolder
    \/ Exit

Spec == Init /\ [][Next]_vars

----------------------------------------------------------------------------
(* The run to its end: the process goes on, each statement of the one      *)
(* thread is followed by the next, every call on SharePoint and S3 returns *)
(* or raises.                                                              *)

\* the trees drawn: a subfolder bears one of two names copy_folder enters or
\* the name it skips
LiveNames == {<<"a">>, <<"f", "o", "r", "m", "s">>, Forms}

\* main starts on one of these trees
LiveInit == Init /\ \A f \in SubFolders : src.name[f] \in LiveNames

LiveSpec == LiveInit /\ [][Next]_vars /\ WF_vars(Next)

----------------------------------------------------------------------------
(* The run and one more run: the operator starts main again on the same    *)
(* command line, source and bucket once a run has ended.                   *)

\* the server relative URLs of the files whose copy failed, and of those
\* written, in the run that has ended
FailedInRun ==
    {log[k].path : k \in {j \in DOMAIN log :
                              log[j].op \in {"fetch", "put"} /\ ~log[j].ok}}
WrittenInRun ==
    {log[k].path : k \in {j \in DOMAIN log : log[j].op = "put" /\ log[j].ok}}

\* the trees drawn for the two runs: a subfolder bears a name copy_folder
\* enters or the name it skips, so a folder has at most one subfolder of each
RerunNames == {<<"a">>, Forms}

\* main starts on one of these trees
RerunInit == Init /\ \A f \in SubFolders : src.name[f] \in RerunNames

\* a new process runs main: nothing of the ended one is left but the bucket
Rerun ==
    /\ pc = "exit" /\ call = NoCall
    /\ call' = [op |-> "rerun", failed |-> FailedInRun, written |-> WrittenInRun]
    /\ pc' = "main"
    /\ s3_prefix' = <<>>
    /\ stack' = <<>>
    /\ result' = NoResult
    /\ exit_code' = NoExit
    /\ log' = <<>>
    /\ UNCHANGED <<args, src, bucket>>

RerunNext ==
    \/ Construct
    \/ StartTransfer
    \/ ListFolder
    \/ CopyFile
    \/ SkipSubfolder
    \/ EnterSubfolder
    \/ ReturnFolder
    \/ Exit
    \/ Rerun

RerunSpec == RerunInit /\ [][RerunNext]_vars

----------------------------------------------------------------------------
(* The path specification: the path functions on drawn strings.            *)

\* the strings of '/' and 'a' of length n, and up to n
RECURSIVE StringsOfLen(_)
StringsOfLen(n) ==
    IF n = 0 THEN {<<>>}
    ELSE {Append(s, c) : s \in StringsOfLen(n - 1), c \in {SLASH, "a"}}
StringsUpTo(n) == UNION {StringsOfLen(k) : k \in 0..n}

\* k times '/'
Slashes(k) == [x \in 1..k |-> SLASH]

\* server relative URLs and folder arguments drawn
PathStrings == StringsUpTo(MaxLen)
\* paths of the site URL drawn: none or /a, with '/' added at the end
SitePaths == {b \o Slashes(k) : b \in {<<>>, <<SLASH, "a">>}, k \in 0..MaxSlashes}
\* --s3-prefix values drawn: none or p, with '/' added at the end
PrefixArgs == {b \o Slashes(k) : b \in {<<>>, <<"p">>}, k \in 0..MaxSlashes}

NoSource == [site |-> <<>>, rel |-> <<>>, parent |-> <<>>, name |-> <<>>,
             fdir |-> <<>>]

\* the object is constructed on a drawn site URL and prefix
PathInit ==
    /\ \E site \in SitePaths, prefix \in PrefixArgs :
          /\ args = [sharepoint_url |-> [origin |-> "https://h", path |-> site],
                     sharepoint_folder |-> <<>>, s3_prefix |-> prefix]
          /\ s3_prefix = NormalizePrefix(prefix)
    /\ src = NoSource
    /\ pc = "path"
    /\ stack = <<>>
    /\ result = NoResult
    /\ exit_code = NoExit
    /\ bucket = <<>>
    /\ log = <<>>
    /\ call = NoCall

\* start_transfer(folder) up to its call of copy_folder: the URL it passes
CallStartTransfer ==
    /\ pc = "path" /\ call = NoCall
    /\ \E folder \in PathStrings :
          call' = [op |-> "start_transfer", folder |-> folder,
                   url |-> ServerRelativeUrl(UrlPath(args.sharepoint_url), folder)]
    /\ UNCHANGED <<args, src, pc, s3_prefix, stack, result, exit_code, bucket, log>>

\* the relative path and the key copy_folder computes, for two files
CallKeys ==
    /\ pc = "path" /\ call = NoCall
    /\ \E p1, p2 \in PathStrings :
          LET rel(p) == GetRelativePath(UrlPath(args.sharepoint_url), p)
          IN  call' = [op |-> "keys",
                       path1 |-> p1, rel1 |-> rel(p1),
                       key1 |-> S3Key(s3_prefix, rel(p1)),
                       path2 |-> p2, rel2 |-> rel(p2),
                       key2 |-> S3Key(s3_prefix, rel(p2))]
    /\ UNCHANGED <<args, src, pc, s3_prefix, stack, result, exit_code, bucket, log>>

PathNext == CallStartTransfer \/ CallKeys

PathSpec == PathInit /\ [][PathNext]_vars

----------------------------------------------------------------------------
(* What the log says happened, and what the tree says should have.         *)

\* the names the specification reserves
ReservedNames == {<<".">>, <<".", ".">>, Forms}

\* path lies below the folder at folder_url
Under(path, folder_url) == StartsWith(path, folder_url \o <<SLASH>>)

\* the calls of one kind made on one path, and those among them that succeeded
Calls(op, path) == {k \in DOMAIN log : log[k].op = op /\ log[k].path = path}
OkCalls(op, path) == {k \in Calls(op, path) : log[k].ok}

Listed(n) == Calls("list", Url(n)) # {}
ListFailed(n) == LET u == Url(n) IN Calls("list", u) # OkCalls("list", u)
ListedOk(n) == OkCalls("list", Url(n)) # {}
Attempted(i) == Calls("fetch", FileUrl(i)) # {}
FetchOk(i) == OkCalls("fetch", FileUrl(i)) # {}
PutOk(i) == OkCalls("put", FileUrl(i)) # {}

\* the newest entry of the log is the return of copy_folder
JustReturned == log # <<>> /\ log[Len(log)].op = "return"
LastEvent == log[Len(log)]
Copied(i) == FetchOk(i) /\ PutOk(i)
Failures == {k \in DOMAIN log : log[k].op \in {"list", "fetch", "put"} /\ ~log[k].ok}
WalkOver == pc \in {"returned", "exit"} /\ result # NoResult

\* the paths on which a listing failed, a fetch succeeded, a write succeeded
FailedListings == {log[k].path : k \in {j \in DOMAIN log : log[j].op = "list" /\ ~log[j].ok}}
Fetched == {log[k].path : k \in {j \in DOMAIN log : log[j].op = "fetch" /\ log[j].ok}}
Written == {log[k].path : k \in {j \in DOMAIN log : log[j].op = "put" /\ log[j].ok}}

\* folder m is reached by copy_folder called on folder n, failed being the paths
\* whose listing failed: every folder on the way down from n to m has an
\* unreserved name and a parent whose listing did not fail
RECURSIVE ReachedFrom(_, _, _)
ReachedFrom(m, n, failed) ==
    IF m = n THEN TRUE
    ELSE IF m = Root THEN FALSE
    ELSE /\ src.name[m] \notin ReservedNames
         /\ Url(src.parent[m]) \notin failed
         /\ ReachedFrom(src.parent[m], n, failed)

\* (S, E) as the tree and the failures give them: over the files of the reached
\* folders whose listing succeeded, S counts those fetched and written, E the
\* others, and E counts the reached folders whose listing failed
ExpectedResult(n) ==
    LET failed == FailedListings
        fetched == Fetched
        written == Written
        reached == {m \in FolderIds : ReachedFrom(m, n, failed)}
        counted == {i \in FileIds : src.fdir[i] \in reached
                                      /\ Url(src.fdir[i]) \notin failed}
        copied == {i \in counted : FileUrl(i) \in fetched /\ FileUrl(i) \in written}
    IN  << Cardinality(copied),
           Cardinality(counted \ copied)
             + Cardinality({m \in reached : Url(m) \in failed}) >>

----------------------------------------------------------------------------
(* C1: every call copy_folder(n) returns (S, E): S the files of the folders *)
(* reached from n through unreserved names and successful listings whose    *)
(* fetch and write both succeeded, E those whose fetch or write failed plus *)
(* the reached folders whose listing failed. Stated of each return as it is *)
(* made, and of what start_transfer hands to main.                          *)
C1_CopyFolderCounts ==
    /\ (JustReturned /\ pc # "exit") =>
          /\ FolderExists(LastEvent.path)
          /\ LastEvent.res = ExpectedResult(FolderAt(LastEvent.path))
    /\ WalkOver => (LastEvent.path = Url(Root) /\ result = LastEvent.res)

\* a transfer with one file copied, one file failed and one listing failed
C1_Witness ==
    /\ WalkOver /\ result = <<1, 2>>
    /\ \E n \in SubFolders : ListFailed(n)
    /\ \E i \in FileIds : FetchOk(i) /\ ~PutOk(i)

(* C2: a failed listing of a folder makes its copy_folder return exactly    *)
(* (0, 1) at once; no call made afterwards (each is the newest entry of the *)
(* log when made) lists, fetches or writes anything below the folder; the   *)
(* caller goes on (main gets a result); and when the folder is the start    *)
(* folder the transfer returns (0, 1) and nothing is written.               *)
C2_ListingFailureAbsorbed ==
    /\ \A k \in DOMAIN log :
          (log[k].op = "list" /\ ~log[k].ok) =>
              /\ k < Len(log)
              /\ log[k + 1] = Returned(log[k].path, <<0, 1>>)
              /\ ~Under(LastEvent.path, log[k].path)
              /\ log[k].path = Url(Root) =>
                    /\ WalkOver /\ result = <<0, 1>>
                    /\ bucket = <<>>
                    /\ \A m \in DOMAIN log : log[m].op # "put"
    /\ (pc = "exit" /\ \E k \in DOMAIN log : log[k].op = "list") => result # NoResult

\* a subfolder that holds a file failed to list, and the walk went on to its end
C2_Witness ==
    /\ WalkOver
    /\ \E n \in SubFolders :
          /\ ListFailed(n)
          /\ \E i \in FileIds : src.fdir[i] = n
          /\ \E m \in SubFolders : m > n /\ Listed(m)

(* C3: a failure is isolated: when copy_folder returns from a folder it had *)
(* listed, every file of the folder was attempted and every subfolder with  *)
(* an unreserved name was listed, whatever failed before; and error_count   *)
(* of the transfer is the number of failed listings, fetches and writes.    *)
C3_FailureIsolated ==
    /\ (JustReturned /\ FolderExists(LastEvent.path)
          /\ ListedOk(FolderAt(LastEvent.path))) =>
          LET n == FolderAt(LastEvent.path)
          IN  /\ \A i \in FileIds : src.fdir[i] = n => Attempted(i)
              /\ \A m \in SubFolders :
                    (src.parent[m] = n /\ src.name[m] \notin ReservedNames)
                        => Listed(m)
    /\ WalkOver => result[2] = Cardinality(Failures)

\* the first file of a folder failed and the second was attempted; the first of
\* two sibling folders failed to list and the second was listed
C3_Witness ==
    /\ WalkOver
    /\ \E i, k \in FileIds :
          i < k /\ src.fdir[i] = src.fdir[k] /\ ~Copied(i) /\ Attempted(k)
    /\ \E f, g \in SubFolders :
          f < g /\ src.parent[f] = src.parent[g] /\ ListFailed(f) /\ Listed(g)

(* C4: a subfolder named '.', '..' or 'Forms' is never listed and nothing   *)
(* at or below its URL is ever fetched or written, at any depth (no call,   *)
(* when made, is on such a path); when copy_folder returns from a listed    *)
(* folder, each of its subfolders with any other name has been listed.      *)
C4_ReservedSkipped ==
    /\ log # <<>> =>
          \A n \in SubFolders :
              src.name[n] \in ReservedNames =>
                  /\ LastEvent.path # Url(n)
                  /\ ~Under(LastEvent.path, Url(n))
    /\ (JustReturned /\ FolderExists(LastEvent.path)
          /\ OkCalls("list", LastEvent.path) # {}) =>
          \A m \in SubFolders :
              (src.parent[m] = FolderAt(LastEvent.path)
                 /\ src.name[m] \in FolderNames \ ReservedNames) => Listed(m)

\* a Forms folder holding a file was passed over below a walked folder, two
\* levels down, and the walk ended
C4_Witness ==
    /\ WalkOver
    /\ \E n, m \in SubFolders :
          /\ src.name[n] = Forms /\ src.parent[n] = m
          /\ src.name[m] = <<"f", "o", "r", "m", "s">> /\ ListedOk(m)
          /\ \E i \in FileIds : src.fdir[i] = n

----------------------------------------------------------------------------
\* no folder from the start folder (not counted) down to n has a reserved name
RECURSIVE Unreserved(_)
Unreserved(n) ==
    n = Root \/ (src.name[n] \notin ReservedNames /\ Unreserved(src.parent[n]))

\* the files outside reserved folders, and the key the specification gives one
OutsideFiles == {i \in FileIds : Unreserved(src.fdir[i])}
ExpectedKey(i) == s3_prefix \o FileRel(i)

(* C5: when no listing, fetch or write failed, start_transfer returns       *)
(* (n, 0), n the number of files outside reserved folders, and the bucket   *)
(* holds exactly n objects: each such file's bytes under the stored prefix  *)
(* followed by the file's path below the site.                              *)
C5_AllSucceed ==
    (WalkOver /\ Failures = {}) =>
        /\ result = <<Cardinality(OutsideFiles), 0>>
        /\ DOMAIN bucket = {ExpectedKey(i) : i \in OutsideFiles}
        /\ Cardinality(DOMAIN bucket) = Cardinality(OutsideFiles)
        /\ \A i \in OutsideFiles : bucket[ExpectedKey(i)] = Content(i)

\* a clean transfer under a prefix: one file copied from a subfolder, another
\* file left in a reserved folder
C5_Witness ==
    /\ WalkOver /\ Failures = {} /\ s3_prefix # <<>>
    /\ \E i \in OutsideFiles : src.fdir[i] # Root /\ ExpectedKey(i) \in DOMAIN bucket
    /\ FileIds \ OutsideFiles # {}

PutEvents == {k \in DOMAIN log : log[k].op = "put"}
FetchEvents == {k \in DOMAIN log : log[k].op = "fetch"}

(* C6 as stated: every per-file copy makes exactly one write attempt, so    *)
(* the put attempts are as many as the per-file copies (each of which makes *)
(* one fetch).                                                              *)
C6_OnePutPerCopy == Cardinality(PutEvents) = Cardinality(FetchEvents)

(* C6 amended: a per-file copy makes one write attempt when its fetch       *)
(* succeeded and none when its fetch failed, and never a second one: a put, *)
(* when made, follows at once the successful fetch of the same file and is  *)
(* the only put of that file; a copy that ends with its fetch ends with a   *)
(* failed fetch and no put of the file; and the put attempts are as many as *)
(* the successful fetches.                                                  *)
C6_OnePutPerFetchedFile ==
    /\ Cardinality(PutEvents) = Cardinality({k \in FetchEvents : log[k].ok})
    /\ (log # <<>> /\ LastEvent.op = "put") =>
          /\ Len(log) > 1
          /\ log[Len(log) - 1].op = "fetch" /\ log[Len(log) - 1].ok
          /\ log[Len(log) - 1].path = LastEvent.path
          /\ Calls("put", LastEvent.path) = {Len(log)}
    /\ (log # <<>> /\ LastEvent.op = "fetch") =>
          /\ ~LastEvent.ok
          /\ Calls("put", LastEvent.path) = {}

\* a transfer in which one fetch failed and one write failed
C6_Witness ==
    /\ WalkOver
    /\ \E k \in FetchEvents : ~log[k].ok
    /\ \E k \in PutEvents : ~log[k].ok

SetupOk ==
    /\ \E k \in DOMAIN log : log[k].op = "head_bucket"
    /\ \A k \in DOMAIN log : log[k].op \in {"auth", "head_bucket"} => log[k].ok

(* C7: main ends with code 0 exactly when the setup succeeded and the       *)
(* transfer returned error_count = 0; with 1 when error_count > 0; and with *)
(* 1 when the SharePoint sign-in or the bucket check raised, and then no    *)
(* folder was ever listed.                                                  *)
C7_ExitCode ==
    /\ pc # "exit" => exit_code = NoExit
    /\ pc = "exit" =>
          /\ exit_code \in {0, 1}
          /\ exit_code = 0 <=> (SetupOk /\ result # NoResult /\ result[2] = 0)
          /\ (result # NoResult /\ result[2] > 0) => exit_code = 1
          /\ ~SetupOk =>
                /\ exit_code = 1
                /\ result = NoResult /\ stack = <<>>
                /\ \A k \in DOMAIN log : log[k].op \in {"auth", "head_bucket"}

\* main ended with 1 after a transfer that copied a file and failed on another
C7_Witness ==
    /\ pc = "exit" /\ exit_code = 1 /\ SetupOk
    /\ result # NoResult /\ result[1] > 0 /\ result[2] > 0

----------------------------------------------------------------------------
(* The path claims, under PathSpec.                                         *)

SitePath == UrlPath(args.sharepoint_url)

(* C8 as stated: start_transfer passes copy_folder the site path and the    *)
(* folder argument with exactly one '/' at their junction: the site path    *)
(* without the '/' it ends in, one '/', the argument without the '/' it     *)
(* starts with.                                                             *)
C8_JoinedByOneSlash ==
    call.op = "start_transfer" =>
        call.url = RStrip(SitePath) \o <<SLASH>> \o LStrip(call.folder)

\* the folder base start_transfer builds: the site path, ending in '/'
SiteBase == IF EndsWith(SitePath, <<SLASH>>) THEN SitePath ELSE SitePath \o <<SLASH>>

\* a path below the site: the base, then something that does not start with '/'
BelowSite(p) == StartsWith(p, SiteBase) /\ ~StartsWith(p, SiteBase \o <<SLASH>>)

(* C9 as stated: two files with different server relative paths get         *)
(* different keys.                                                          *)
C9_KeysInjective ==
    (call.op = "keys" /\ call.path1 # call.path2) => call.key1 # call.key2

(* C9 amended: two files with different server relative paths that both lie *)
(* below the site (the site path, a '/' unless it ends in one, then no      *)
(* further '/') get different keys.                                         *)
C9_KeysInjectiveBelowSite ==
    (call.op = "keys" /\ call.path1 # call.path2
        /\ BelowSite(call.path1) /\ BelowSite(call.path2))
    => call.key1 # call.key2

\* two files below the site /a, one of them in a folder, under a prefix
C9_Witness ==
    /\ call.op = "keys" /\ call.path1 # call.path2
    /\ BelowSite(call.path1) /\ BelowSite(call.path2)
    /\ SitePath = <<SLASH, "a">> /\ s3_prefix # <<>>
    /\ call.rel1 # <<>> /\ Len(call.rel2) > Len(call.rel1)

(* C10: the stored prefix is empty when the configured one is, and ends in  *)
(* exactly one '/' otherwise; the relative path put after it never starts   *)
(* with '/'; the key is the one followed by the other.                      *)
C10_PrefixJunction ==
    /\ args.s3_prefix = <<>> => s3_prefix = <<>>
    /\ args.s3_prefix # <<>> =>
          /\ EndsWith(s3_prefix, <<SLASH>>)
          /\ ~EndsWith(s3_prefix, <<SLASH, SLASH>>)
    /\ call.op = "keys" =>
          /\ ~StartsWith(call.rel1, <<SLASH>>)
          /\ call.key1 = s3_prefix \o call.rel1
          /\ call.rel1 # <<>> =>
                call.key1[Len(s3_prefix) + 1] # SLASH

\* a prefix configured with two '/' at its end and a path that starts with '/'
C10_Witness ==
    /\ call.op = "keys"
    /\ EndsWith(args.s3_prefix, <<"p", SLASH, SLASH>>)
    /\ StartsWith(call.path1, <<SLASH>>) /\ call.rel1 # <<>>

\* rel is what is left of s after some number of '/' at its start, and does not
\* start with '/' itself
StrippedOf(s, rel) ==
    /\ \E k \in 0..Len(s) : s = Slashes(k) \o rel
    /\ (rel = <<>> \/ rel[1] # SLASH)

\* the lengths n such that the first n characters of path are the site path
SiteCuts(path) == {n \in 0..Len(path) : SubSeq(path, 1, n) = SitePath}

\* the relative path is the one C11 states for the path
RelativeAsStated(path, rel) ==
    /\ rel \in Seq({SLASH, "a"})
    /\ \A n \in SiteCuts(path) : StrippedOf(SubSeq(path, n + 1, Len(path)), rel)
    /\ SiteCuts(path) = {} => StrippedOf(path, rel)

(* C11: for a path that starts with the site path, _get_relative_path gives *)
(* the path without its first len(site path) characters and without the '/' *)
(* that then come first, and nothing more is removed; for a path that does  *)
(* not start with the site path it gives the path without the '/' it starts *)
(* with; the result is always a string.                                     *)
C11_RelativePath ==
    call.op = "keys" =>
        /\ RelativeAsStated(call.path1, call.rel1)
        /\ RelativeAsStated(call.path2, call.rel2)

\* site path /a/: one path has it followed by a further '/', which is dropped
\* too; the other starts with '/' and not with the site path
C11_Witness ==
    /\ call.op = "keys"
    /\ SitePath = <<SLASH, "a", SLASH>>
    /\ call.path1 = <<SLASH, "a", SLASH, SLASH, "a">> /\ call.rel1 = <<"a">>
    /\ call.path2 = <<SLASH, "a", "a">> /\ call.rel2 = <<"a", "a">>

----------------------------------------------------------------------------
(* The claim on the two runs, under RerunSpec.                              *)

\* the files written so far, in the run that ended or in this one
EverWritten ==
    {i \in FileIds :
        \/ PutOk(i)
        \/ (call.op = "rerun" /\ FileUrl(i) \in call.written)}

\* the key of file i: the normalised prefix, then its path below the site
KeyOf(i) == NormalizePrefix(args.s3_prefix) \o FileRel(i)

\* the bucket after one successful first copy of each file of W and nothing else
FirstTime(W) ==
    [k \in {KeyOf(i) : i \in W} |-> Content(CHOOSE i \in W : KeyOf(i) = k)]

(* C12: at every moment of a run and of the run after it, the bucket is     *)
(* what one successful first copy of each file written so far leaves: a     *)
(* file whose copy failed and then succeeded in the next run has its one    *)
(* object, under its key and with its content, there is no other object,    *)
(* and an object written earlier stays when a later file or folder fails.   *)
C12_OverwriteIdempotent ==
    /\ bucket = FirstTime(EverWritten)
    /\ \A i \in FileIds :
          (call.op = "rerun" /\ FileUrl(i) \in call.failed /\ PutOk(i)) =>
              /\ KeyOf(i) \in DOMAIN bucket
              /\ bucket[KeyOf(i)] = Content(i)
              /\ \A k \in DOMAIN bucket : \E n \in EverWritten : k = KeyOf(n)

\* the first run wrote file 1 and then failed on file 2; the second run failed
\* to fetch file 1 and wrote file 2: the bucket holds the two objects
C12_Witness ==
    /\ call.op = "rerun" /\ pc = "exit"
    /\ FileUrl(1) \in call.written /\ FileUrl(2) \in call.failed
    /\ Attempted(1) /\ ~FetchOk(1) /\ PutOk(2)
    /\ DOMAIN bucket = {KeyOf(1), KeyOf(2)}
    /\ bucket[KeyOf(1)] = Content(1) /\ bucket[KeyOf(2)] = Content(2)

----------------------------------------------------------------------------
(* The claim on the pass, under LiveSpec.                                   *)

\* the entry of the log is a call or a return in the subtree of folder m
InSubtree(e, m) == e.path = Url(m) \/ Under(e.path, Url(m))

\* no folder is listed twice and no file is fetched twice: the newest call is
\* the only one of its kind on its path
AtMostOnce ==
    (log # <<>> /\ LastEvent.op \in {"list", "fetch", "put"}) =>
        Cardinality(Calls(LastEvent.op, LastEvent.path)) = 1

\* the walk is over: each reached folder was listed once, each file of a
\* folder whose listing succeeded was attempted once
ExactlyOnce ==
    LET failed == FailedListings
    IN  /\ \A n \in FolderIds :
              ReachedFrom(n, Root, failed) =>
                  Cardinality(Calls("list", Url(n))) = 1
        /\ \A i \in FileIds :
              ListedOk(src.fdir[i]) =>
                  Cardinality(Calls("fetch", FileUrl(i))) = 1

\* a subfolder is listed after every file of its parent was attempted
FilesBeforeFolders ==
    \A m \in SubFolders : \A k \in Calls("list", Url(m)) :
        \A i \in FileIds :
            src.fdir[i] = src.parent[m] =>
                \E j \in Calls("fetch", FileUrl(i)) : j < k

\* depth first: what the log holds of the subtree of a folder is one stretch
DepthFirst ==
    \A m \in FolderIds :
        LET in == {k \in DOMAIN log : InSubtree(log[k], m)}
        IN  \A j, l \in in : \A k \in j..l : k \in in

SinglePass ==
    /\ AtMostOnce
    /\ pc = "returned" =>
          /\ ExactlyOnce
          /\ FilesBeforeFolders
          /\ DepthFirst

(* C13: whatever listings, fetches and writes fail, main comes to its end,  *)
(* and the walk is one pass: no folder is listed and no file attempted      *)
(* twice; when start_transfer returns, every folder reached (the start      *)
(* folder, and each subfolder without a reserved name of a reached folder   *)
(* whose listing succeeded) was listed exactly once, every file of a folder *)
(* whose listing succeeded was attempted exactly once, every subfolder was  *)
(* listed after all files of its parent were attempted, and the calls made  *)
(* in the subtree of a folder follow each other without a call outside it.  *)
C13_SinglePassTerminates == []SinglePass /\ <>(pc = "exit")

\* a walk that ended after a failed listing, a failed fetch and a failed
\* write, in which a subfolder with a file of its own was listed
C13_Witness ==
    /\ pc = "exit" /\ result # NoResult
    /\ \E k \in DOMAIN log : log[k].op = "list" /\ ~log[k].ok
    /\ \E k \in DOMAIN log : log[k].op = "fetch" /\ ~log[k].ok
    /\ \E k \in DOMAIN log : log[k].op = "put" /\ ~log[k].ok
    /\ \E i \in FileIds :
          /\ src.fdir[i] # Root /\ Attempted(i)
          /\ \E n \in FileIds : src.fdir[n] = src.parent[src.fdir[i]]

=============================================================================
